---------------------------- MODULE Spec2Model ----------------------------
(***************************************************************************)
(* Model of ACTIONet/tools/_imputation.py: the three imputation utilities  *)
(* over an annotated matrix (AnnData):                                     *)
(*   impute_genes_using_archetypes, impute_specific_genes_using_archetypes *)
(*   and impute_genes_using_ACTIONet.                                      *)
(*                                                                         *)
(* An annotated matrix is a record                                         *)
(*   [obs, var, X, obsm, varm, obsp]                                       *)
(* obs and var are the cell and gene indexes (sequences of distinct        *)
(* names), X is the cells x genes expression matrix (a sequence of rows),  *)
(* obsm, varm and obsp are the keyed per-cell, per-gene and per-cell-pair  *)
(* matrices (functions whose DOMAIN is the set of keys present).           *)
(*                                                                         *)
(* Floating point values are modelled as exact rationals with the IEEE     *)
(* specials that the code can produce (nan, inf, -inf).  Integer matrices  *)
(* (loadings, profiles) stay integers; log1p is a fixed-point table in     *)
(* thousandths.                                                            *)
(***************************************************************************)
EXTENDS Integers, Sequences, FiniteSets, TLC

VARIABLES adata, call, result, locals

vars == <<adata, call, result, locals>>

\* ------------------------------------------------------------------ bounds
\* largest raw expression value of X (the smallest is -1, so that the clamp acts)
MaxExpr == 1
\* largest value the diffusion primitive returns (it also returns nan and
\* negative values, down to -2)
MaxDiff == 1
\* largest entry of a profile / specificity matrix
MaxProf == 1
\* largest entry of a loading matrix
MaxLoad == 1

\* ------------------------------------------------------------------ helpers
Range(s) == {s[i] : i \in 1..Len(s)}

Abs(n) == IF n < 0 THEN -n ELSE n

RECURSIVE GCD(_, _)
GCD(a, b) == IF b = 0 THEN a ELSE GCD(b, a % b)

RECURSIVE SumSeq(_)
SumSeq(s) == IF s = <<>> THEN 0 ELSE Head(s) + SumSeq(Tail(s))

\* an array held in memory: every entry is computed once, when the array is built
Array(f) == f \o <<>>

\* number of columns of a matrix that has at least one row
NCols(M) == IF Len(M) = 0 THEN 0 ELSE Len(M[1])

\* M.T for a matrix of ncols columns (ncols is given: a matrix with no rows
\* still has a column count in numpy)
Transpose(M, ncols) == Array([j \in 1..ncols |-> Array([i \in 1..Len(M) |-> M[i][j]])])

\* A @ B for integer matrices, B having ncolsB columns
MatMul(A, B, ncolsB) ==
    Array([i \in 1..Len(A) |->
        Array([j \in 1..ncolsB |->
            SumSeq([t \in 1..Len(B) |-> A[i][t] * B[t][j]])])])

\* positions of the TRUE entries of a boolean mask, ascending
MaskPositions(mask) ==
    LET RECURSIVE Pos(_)
        Pos(j) == IF j > Len(mask) THEN <<>>
                  ELSE IF mask[j] THEN <<j>> \o Pos(j + 1) ELSE Pos(j + 1)
    IN  Pos(1)

\* M[:, mask]: the columns of M selected by a boolean mask, in column order
SelectColumns(M, mask) ==
    LET p == MaskPositions(mask)
    IN  Array([i \in 1..Len(M) |-> Array([c \in 1..Len(p) |-> M[i][p[c]]])])

\* index[mask]: the labels selected by a boolean mask
SelectLabels(index, mask) ==
    LET p == MaskPositions(mask)
    IN  Array([c \in 1..Len(p) |-> index[p[c]]])

\* position of a label in an index of distinct labels
PositionOf(index, name) == CHOOSE j \in 1..Len(index) : index[j] = name

\* ------------------------------------------------------------------ floats
NaN == [k |-> "nan", n |-> 0, d |-> 1]
PosInf == [k |-> "inf", n |-> 1, d |-> 1]
NegInf == [k |-> "inf", n |-> -1, d |-> 1]

\* the float n/d (d # 0), in lowest terms with a positive denominator
FNum(n, d) ==
    LET s == IF d < 0 THEN -1 ELSE 1
        g == GCD(Abs(n), Abs(d))
    IN  [k |-> "num", n |-> (s * n) \div g, d |-> (s * d) \div g]

FZero == FNum(0, 1)

\* numpy true division of two numbers: x/0 is nan, inf or -inf (a warning, no error)
TrueDivide(a, b) ==
    IF b = 0
    THEN IF a = 0 THEN NaN ELSE IF a > 0 THEN PosInf ELSE NegInf
    ELSE FNum(a, b)

FMul(x, y) ==
    IF x.k = "num" /\ y.k = "num" THEN FNum(x.n * y.n, x.d * y.d) ELSE NaN

FDiv(x, y) ==
    IF x.k = "num" /\ y.k = "num"
    THEN TrueDivide(x.n * y.d, x.d * y.n)
    ELSE NaN

\* x > y; any comparison with nan is False
FGreater(x, y) ==
    /\ x.k = "num"
    /\ y.k = "num"
    /\ x.n * y.d > y.n * x.d

\* np.max of a non-empty column; nan propagates
RECURSIVE FMax(_)
FMax(col) ==
    IF Len(col) = 1 THEN Head(col)
    ELSE LET m == FMax(Tail(col))
         IN  IF Head(col).k = "nan" \/ m.k = "nan" THEN NaN
             ELSE IF FGreater(Head(col), m) THEN Head(col) ELSE m

\* column i of a matrix
Col(M, i) == Array([r \in 1..Len(M) |-> M[r][i]])


\* ------------------------------------------------------------------ results
NoCall == [op |-> "none", genes |-> <<>>, archetypes_key |-> "", feature_key |-> ""]

NoResult == [status |-> "none", error |-> "", X |-> <<>>, obs |-> <<>>, var |-> <<>>]

NoLocals ==
    [done |-> {}, genes |-> <<>>, branch |-> "none", cs |-> <<>>, U |-> <<>>,
     gg |-> <<>>, imputed |-> <<>>, rescaled |-> <<>>]

\* the one documented error kind (a required keyed matrix is absent) ...
MissingInput == "ValueError: Did not find required key"
\* ... and the errors the libraries raise
KeyErr == "KeyError"
ShapeErr == "ValueError: annotation length does not match the shape of X"

Raise(err) == [status |-> "raised", error |-> err, X |-> <<>>, obs |-> <<>>, var |-> <<>>]

\* the AnnData constructor: obs must have one label per row of X and var one
\* label per column of X, else it raises
AnnData(X, obs, var) ==
    IF Len(X) = Len(obs) /\ \A i \in 1..Len(X) : Len(X[i]) = Len(var)
    THEN [status |-> "returned", error |-> "", X |-> X, obs |-> obs, var |-> var]
    ELSE Raise(ShapeErr)

\* pandas Index.intersection: the labels of index that occur in genes, in the
\* order of index, each once
IndexIntersection(index, genes) ==
    LET Requested(x) == x \in Range(genes)
    IN  SelectSeq(index, Requested)

\* ------------------------------------------------------------------ archetype paths
\* the index the archetype operations intersect the requested genes with
ArchetypeGeneIndex(ad) == ad.obs

\* the varm key impute_genes_using_archetypes reads
ProfileKeyRead(archetypes_key, profile_key) == archetypes_key \o "_profile"

\* the varm key impute_specific_genes_using_archetypes reads
SignificanceKeyRead(archetypes_key, significance_key) == significance_key

\* np.log1p of a small non-negative integer, in thousandths (fixed point)
Log1p(x) ==
    CASE x = 0 -> 0
      [] x = 1 -> 693
      [] x = 2 -> 1099
      [] x = 3 -> 1386
      [] x = 4 -> 1609

Log1pMatrix(M) ==
    Array([i \in 1..Len(M) |-> Array([j \in 1..Len(M[i]) |-> Log1p(M[i][j])])])

\* adata[:, genes].varm[key]: the rows of the per-gene matrix for the named genes
ViewVarm(ad, genes, key) ==
    Array([c \in 1..Len(genes) |-> ad.varm[key][PositionOf(ad.var, genes[c])]])

\* lines 42-47 and 82-87, after the two key checks; log says whether log1p is applied to Z
ArchetypeProduct(ad, genes, archetypes_key, read_key, log) ==
    LET g == IndexIntersection(ArchetypeGeneIndex(ad), genes)
        lc1 == [NoLocals EXCEPT !.done = {"intersection"}, !.genes = g]
    IN  IF ~(Range(g) \subseteq Range(ad.var)) \/ read_key \notin DOMAIN ad.varm
        THEN [result |-> Raise(KeyErr), locals |-> lc1]
        ELSE LET Zraw == ViewVarm(ad, g, read_key)
                 Z == IF log THEN Log1pMatrix(Zraw) ELSE Zraw
                 H == Transpose(ad.obsm[archetypes_key], NCols(ad.obsm[archetypes_key]))
                 P == MatMul(Z, H, Len(ad.obs))
             IN  [result |-> AnnData(Transpose(P, Len(ad.obs)), ad.obs, g),
                  locals |-> [lc1 EXCEPT !.done = {"intersection", "product", "AnnData"}]]

ArchetypesKeyMissing(ad, archetypes_key) == archetypes_key \notin DOMAIN ad.obsm

FeatureKeyMissing(ad, feature_key) == feature_key \notin DOMAIN ad.varm

impute_genes_using_archetypes(ad, genes, archetypes_key, profile_key) ==
    IF ArchetypesKeyMissing(ad, archetypes_key) \/ FeatureKeyMissing(ad, profile_key)
    THEN [result |-> Raise(MissingInput), locals |-> NoLocals]
    ELSE ArchetypeProduct(ad, genes, archetypes_key,
                          ProfileKeyRead(archetypes_key, profile_key), FALSE)

impute_specific_genes_using_archetypes(ad, genes, archetypes_key, significance_key) ==
    IF ArchetypesKeyMissing(ad, archetypes_key) \/ FeatureKeyMissing(ad, significance_key)
    THEN [result |-> Raise(MissingInput), locals |-> NoLocals]
    ELSE ArchetypeProduct(ad, genes, archetypes_key,
                          SignificanceKeyRead(archetypes_key, significance_key), TRUE)

\* ------------------------------------------------------------------ diffusion path
GraphKey == "ACTIONet"

\* the graph key check left out
GraphKeyMissing_unchecked(ad) == FALSE

GraphKeyMissing(ad) == GraphKey \notin DOMAIN ad.obsp

\* the clamp left out
Clamp_skipped(U) == U

\* U[U < 0] = 0
Clamp(U) ==
    Array([i \in 1..Len(U) |->
        Array([j \in 1..Len(U[i]) |-> IF U[i][j] < 0 THEN 0 ELSE U[i][j]])])

\* the clamp applied to adata.X itself instead of a copy
XAfterClamp_inplace(X, mask) ==
    Array([i \in 1..Len(X) |->
        Array([j \in 1..Len(X[i]) |-> IF mask[j] /\ X[i][j] < 0 THEN 0 ELSE X[i][j]])])

\* adata.X after lines 124-125: the clamp acts on U, a copy of the selected columns
XAfterClamp(X, mask) == X

\* np.sum(U, axis=0) of a matrix of ncols columns
ColSums(U, ncols) == Array([j \in 1..ncols |-> SumSeq(Col(U, j))])

\* the zero-total columns kept
KeepColumns_all(cs) == Array([j \in 1..Len(cs) |-> TRUE])

\* the column mask cs > 0
KeepColumns(cs) == Array([j \in 1..Len(cs) |-> cs[j] > 0])

\* lines 121-133: the gene selection and the normalised signal
Normalise(ad, genes) ==
    LET g == IndexIntersection(ad.var, genes)
        mask == Array([j \in 1..Len(ad.var) |-> ad.var[j] \in Range(g)])
        nsel == Len(MaskPositions(mask))
        sel == SelectColumns(ad.X, mask)
    IN  IF nsel > 0
        THEN LET Uc == Clamp(sel)
                 cs == ColSums(Uc, nsel)
                 Ud == Array([i \in 1..Len(Uc) |->
                           Array([j \in 1..nsel |-> TrueDivide(Uc[i][j], cs[j])])])
                 keep == KeepColumns(cs)
             IN  [genes |-> g, mask |-> mask, branch |-> "per_column", cs |-> cs,
                  U |-> SelectColumns(Ud, keep), gg |-> SelectLabels(g, keep)]
        ELSE LET total == SumSeq([i \in 1..Len(sel) |-> SumSeq(sel[i])])
             IN  [genes |-> g, mask |-> mask, branch |-> "global", cs |-> <<>>,
                  U |-> Array([i \in 1..Len(sel) |->
                           Array([j \in 1..nsel |-> TrueDivide(sel[i][j], total)])]),
                  gg |-> g]

\* the values the external primitive compute_network_diffusion may put in a cell
DiffusionValues == {NaN} \cup {FNum(v, 1) : v \in -2..MaxDiff}

\* every dense cells x columns matrix the primitive may return
DiffusionResults(ncells, ncols) == [1..ncells -> [1..ncols -> DiffusionValues]]

\* np.nan_to_num(imputed, copy=False, nan=0.0)
NanToNum(M) ==
    Array([i \in 1..Len(M) |->
        Array([j \in 1..Len(M[i]) |-> IF M[i][j].k = "nan" THEN FZero ELSE M[i][j]])])

\* the ceiling left out
ClampToCeiling_skipped(y, x_Q) == y

\* y[y > x_Q] = x_Q
ClampToCeiling(y, x_Q) ==
    Array([r \in 1..Len(y) |-> IF FGreater(y[r], x_Q) THEN x_Q ELSE y[r]])

\* one iteration of the rescaling loop: the column written to rescaled[:, i]
RescaleColumn(x, y) ==
    LET x_Q == FMax(x)
        y_Q == FMax(y)
    IN  IF y_Q = FZero
        THEN Array([r \in 1..Len(y) |-> FZero])
        ELSE ClampToCeiling(Array([r \in 1..Len(y) |-> FDiv(FMul(y[r], x_Q), y_Q)]), x_Q)

\* lines 141-157
Rescale(U, imputed) ==
    LET ncols == NCols(imputed)
        cols == Array([i \in 1..ncols |-> RescaleColumn(Col(U, i), Col(imputed, i))])
    IN  Transpose(cols, Len(imputed))

\* the var index the result is labelled with
OutputVarIndex(genes, gg) == genes

\* diffused is what compute_network_diffusion returns on this call
impute_genes_using_ACTIONet(ad, genes, diffused) ==
    IF GraphKeyMissing(ad)
    THEN [result |-> Raise(MissingInput), locals |-> NoLocals, X |-> ad.X]
    ELSE LET n == Normalise(ad, genes)
             lc1 == [NoLocals EXCEPT !.done = {"intersection", "normalisation"},
                                     !.genes = n.genes, !.branch = n.branch,
                                     !.cs = n.cs, !.U = n.U, !.gg = n.gg]
             Xin == XAfterClamp(ad.X, n.mask)
         IN  IF GraphKey \notin DOMAIN ad.obsp
             THEN [result |-> Raise(KeyErr), locals |-> lc1, X |-> Xin]
             ELSE LET imputed == NanToNum(diffused)
                      rescaled == Rescale(n.U, imputed)
                  IN  [result |-> AnnData(rescaled, ad.obs, OutputVarIndex(n.genes, n.gg)),
                       locals |-> [lc1 EXCEPT
                           !.done = {"intersection", "normalisation", "diffusion",
                                     "rescale", "AnnData"},
                           !.imputed = imputed, !.rescaled = rescaled],
                       X |-> Xin]

\* ------------------------------------------------------------------ inputs
EmptyMap == [k \in {} |-> <<>>]

\* every keyed collection holding a subset of keys, each key a matrix of mats
KeyMaps(keys, mats) == UNION {[S -> mats] : S \in SUBSET keys}

Matrices(nrows, ncols, values) == [1..nrows -> [1..ncols -> values]]

ArchetypeKeys == {"H_unified"}
ProfileKeys == {"unified_feature_profile", "H_unified_profile"}
SignificanceKeys == {"unified_feature_specificity"}

\* the gene lists a caller asks for: genes of the matrix in either order, a
\* gene the matrix does not have (g3), a cell label (c2)
GeneLists ==
    {<<>>, <<"g1">>, <<"g2">>, <<"g3">>, <<"g1", "g2">>, <<"g2", "g1">>,
     <<"g1", "g3">>, <<"c2">>, <<"g1", "c2">>}

\* a placeholder for the cells x cells graph; only the primitive reads it
Graph(ncells) ==
    Array([i \in 1..ncells |-> Array([j \in 1..ncells |-> IF i = j THEN 0 ELSE 1])])

\* matrices with raw expression and a graph, or not yet a graph
DiffusionData ==
    {[obs |-> <<"c1", "c2">>, var |-> <<"g1", "g2">>, X |-> X,
      obsm |-> EmptyMap, varm |-> EmptyMap, obsp |-> P] :
        X \in Matrices(2, 2, -1..MaxExpr),
        P \in KeyMaps({GraphKey}, {Graph(2)})}

\* cell indexes: the usual one, and two that share labels with the gene index
CellIndexes == {<<"c1", "c2">>, <<"g2", "g1">>, <<"g1", "c2">>}

\* matrices with an archetype decomposition (one archetype): profiles under
\* either profile key, or a specificity matrix
ArchetypeData ==
    {[obs |-> o, var |-> <<"g1", "g2">>, X |-> <<<<0, 0>>, <<0, 0>>>>,
      obsm |-> H, varm |-> Z, obsp |-> EmptyMap] :
        o \in CellIndexes,
        H \in KeyMaps(ArchetypeKeys, Matrices(2, 1, 0..MaxLoad)),
        Z \in KeyMaps(ProfileKeys, Matrices(2, 1, 0..MaxProf))
              \cup KeyMaps(SignificanceKeys, Matrices(2, 1, 0..MaxProf))}

\* a 3-cell / 2-archetype / 2-gene matrix
HandExample ==
    [obs |-> <<"g1", "g2", "c3">>, var |-> <<"g1", "g2">>,
     X |-> <<<<1, 0>>, <<0, 2>>, <<0, 0>>>>,
     obsm |-> [k \in ArchetypeKeys |-> <<<<1, 0>>, <<0, 1>>, <<1, 1>>>>],
     varm |-> [k \in ProfileKeys \cup SignificanceKeys |->
                 IF k = "unified_feature_profile" THEN <<<<1, 2>>, <<3, 0>>>>
                 ELSE IF k = "H_unified_profile" THEN <<<<2, 1>>, <<0, 3>>>>
                 ELSE <<<<0, 1>>, <<2, 3>>>>],
     obsp |-> EmptyMap]

\* ------------------------------------------------------------------ state machine
Init ==
    /\ adata \in DiffusionData \cup ArchetypeData \cup {HandExample}
    /\ call = NoCall
    /\ result = NoResult
    /\ locals = NoLocals

ImputeGenesUsingArchetypes ==
    /\ call.op = "none"
    /\ \E genes \in GeneLists, akey \in ArchetypeKeys, pkey \in ProfileKeys :
         \E out \in {impute_genes_using_archetypes(adata, genes, akey, pkey)} :
             /\ call' = [op |-> "impute_genes_using_archetypes", genes |-> genes,
                         archetypes_key |-> akey, feature_key |-> pkey]
             /\ result' = out.result
             /\ locals' = out.locals
    /\ UNCHANGED adata

ImputeSpecificGenesUsingArchetypes ==
    /\ call.op = "none"
    /\ \E genes \in GeneLists, akey \in ArchetypeKeys, skey \in SignificanceKeys :
         \E out \in {impute_specific_genes_using_archetypes(adata, genes, akey, skey)} :
             /\ call' = [op |-> "impute_specific_genes_using_archetypes", genes |-> genes,
                         archetypes_key |-> akey, feature_key |-> skey]
             /\ result' = out.result
             /\ locals' = out.locals
    /\ UNCHANGED adata

ImputeGenesUsingACTIONet ==
    /\ call.op = "none"
    /\ \E genes \in GeneLists :
         \E diffused \in IF GraphKey \in DOMAIN adata.obsp
                         THEN DiffusionResults(Len(adata.obs), NCols(Normalise(adata, genes).U))
                         ELSE {<<>>} :
            \E out \in {impute_genes_using_ACTIONet(adata, genes, diffused)} :
                /\ call' = [op |-> "impute_genes_using_ACTIONet", genes |-> genes,
                            archetypes_key |-> "", feature_key |-> GraphKey]
                /\ result' = out.result
                /\ locals' = out.locals
                /\ adata' = [adata EXCEPT !.X = out.X]

\* the caller drops the returned matrix (or handles the error) and may call again
Release ==
    /\ call.op # "none"
    /\ call' = NoCall
    /\ result' = NoResult
    /\ locals' = NoLocals
    /\ UNCHANGED adata

Next ==
    \/ ImputeGenesUsingArchetypes
    \/ ImputeSpecificGenesUsingArchetypes
    \/ ImputeGenesUsingACTIONet
    \/ Release

Spec == Init /\ [][Next]_vars

\* ------------------------------------------------------------------ properties
Called == call.op # "none"

IsDiffusion == call.op = "impute_genes_using_ACTIONet"

IsProfile == call.op = "impute_genes_using_archetypes"

IsSpecific == call.op = "impute_specific_genes_using_archetypes"

\* the keys the operation called documents as required are all present
RequiredKeysPresent ==
    IF IsDiffusion
    THEN GraphKey \in DOMAIN adata.obsp
    ELSE /\ call.archetypes_key \in DOMAIN adata.obsm
         /\ call.feature_key \in DOMAIN adata.varm

\* the requested genes the matrix has
RequestedPresent == Range(call.genes) \cap Range(adata.var)

\* the same, as a list in the order of the gene index
RequestedPresentSeq ==
    LET Present(g) == g \in Range(call.genes)
    IN  SelectSeq(adata.var, Present)

NonNeg(v) == IF v < 0 THEN 0 ELSE v

\* total expression of a gene, negative values counted as zero
Total(g) ==
    LET j == PositionOf(adata.var, g)
    IN  SumSeq([i \in 1..Len(adata.X) |-> NonNeg(adata.X[i][j])])

\* the requested genes of the matrix with positive total, in index order
PositiveSeq ==
    LET Positive(g) == g \in Range(call.genes) /\ Total(g) > 0
    IN  SelectSeq(adata.var, Positive)

HasShape(X, nrows, ncols) == Len(X) = nrows /\ \A i \in 1..Len(X) : Len(X[i]) = ncols

FLessEq(x, y) == x.k = "num" /\ y.k = "num" /\ x.n * y.d <= y.n * x.d

FAdd(x, y) ==
    IF x.k = "num" /\ y.k = "num" THEN FNum(x.n * y.d + y.n * x.d, x.d * y.d) ELSE NaN

RECURSIVE FSum(_)
FSum(col) == IF col = <<>> THEN FZero ELSE FAdd(Head(col), FSum(Tail(col)))

\* the outcome of the same call with the requested genes that the matrix
\* lacks taken off the list (the diffusion primitive answering the same)
RerunWithoutAbsent ==
    LET Present(g) == g \in Range(adata.var)
        genes == SelectSeq(call.genes, Present)
    IN  IF IsDiffusion
        THEN impute_genes_using_ACTIONet(adata, genes, locals.imputed).result
        ELSE IF IsProfile
        THEN impute_genes_using_archetypes(
                 adata, genes, call.archetypes_key, call.feature_key).result
        ELSE impute_specific_genes_using_archetypes(
                 adata, genes, call.archetypes_key, call.feature_key).result

\* C1 (as stated): for each of the three operations, the genes of a returned
\* output are exactly the requested genes that the matrix has, and a requested
\* gene that the matrix lacks is silently dropped: the call ends as it does
\* without that gene on the list, with no error of its own.
C1_OutputGenesAreIntersection ==
    Called =>
        /\ result.status = "returned" => Range(result.var) = RequestedPresent
        /\ result = RerunWithoutAbsent

\* C2 (as stated): impute_genes_using_archetypes with both keys present returns
\* a cells x intersected-genes matrix whose entry (cell i, gene c) is the product
\* of the gene's row of varm[profile_key] with the cell's row of
\* obsm[archetypes_key].
C2_ProfileProduct ==
    (IsProfile /\ RequiredKeysPresent) =>
        /\ result.status = "returned"
        /\ HasShape(result.X, Len(adata.obs), Len(RequestedPresentSeq))
        /\ \A i \in 1..Len(adata.obs) : \A c \in 1..Len(RequestedPresentSeq) :
             result.X[i][c] =
                SumSeq([t \in 1..Len(adata.obsm[call.archetypes_key][i]) |->
                    adata.varm[call.feature_key]
                        [PositionOf(adata.var, RequestedPresentSeq[c])][t]
                    * adata.obsm[call.archetypes_key][i][t]])

\* C3: a call on a matrix that lacks a required key raises the missing-input
\* error and has done nothing else: no intersection, no product, no diffusion,
\* no output matrix.
C3_MissingKeyFailsFast ==
    (Called /\ ~RequiredKeysPresent) =>
        /\ result.status = "raised"
        /\ result.error = MissingInput
        /\ locals.done = {}
        /\ result.X = <<>>

C3_Witness ==
    /\ IsDiffusion
    /\ ~RequiredKeysPresent
    /\ call.genes # <<>>
    /\ result.status = "raised"

\* C4 (as stated): a diffusion call with the graph present in which some but
\* not all selected genes have zero total returns, labelled with the genes of
\* positive total, one label per value column.
C4_ReducedGenesReturned ==
    (/\ IsDiffusion
     /\ RequiredKeysPresent
     /\ PositiveSeq # <<>>
     /\ PositiveSeq # RequestedPresentSeq) =>
        /\ result.status = "returned"
        /\ result.var = PositiveSeq
        /\ HasShape(result.X, Len(adata.obs), Len(result.var))

\* C5 (as stated): a diffusion call with the graph present in which every
\* selected gene has zero total raises nothing, normalises by the global sum
\* and returns a cells x selected-genes matrix.
C5_DegenerateReturns ==
    (/\ IsDiffusion
     /\ RequiredKeysPresent
     /\ PositiveSeq = <<>>) =>
        /\ result.status = "returned"
        /\ locals.branch = "global"
        /\ HasShape(result.X, Len(adata.obs), Len(RequestedPresentSeq))

\* C6: after the rescaling loop, the maximum of every rescaled column is at
\* most the maximum x_Q of the same column of the normalised signal, and a
\* column whose diffused maximum y_Q is 0 is all zeros.
C6_RescaledBelowCeiling ==
    ("rescale" \in locals.done) =>
        \A i \in 1..NCols(locals.imputed) :
            /\ FLessEq(FMax(Col(locals.rescaled, i)), FMax(Col(locals.U, i)))
            /\ (FMax(Col(locals.imputed, i)) = FZero =>
                    \A r \in 1..Len(locals.rescaled) : locals.rescaled[r][i] = FZero)

\* a call where one column diffused to a negative maximum (the scaled values
\* reach the ceiling) and another to a zero maximum
C6_Witness ==
    /\ "rescale" \in locals.done
    /\ \E i, j \in 1..NCols(locals.imputed) :
         /\ FGreater(FZero, FMax(Col(locals.imputed, i)))
         /\ FMax(Col(locals.imputed, j)) = FZero

\* what impute_genes_using_archetypes returns on the matrix whose profile
\* under profile_key is log1p of the specificity matrix
ProfileOnLog1p(profile_key) ==
    LET S == adata.varm[call.feature_key]
        ad == [adata EXCEPT !.varm =
                 [k \in DOMAIN adata.varm \cup {profile_key} |->
                    IF k = profile_key THEN Log1pMatrix(S) ELSE adata.varm[k]]]
    IN  impute_genes_using_archetypes(ad, call.genes, call.archetypes_key, profile_key).result

\* C7 (as stated): impute_specific_genes_using_archetypes returns what
\* impute_genes_using_archetypes returns, with the same loadings and genes, on
\* a profile matrix equal to log1p of the specificity matrix.
C7_SpecificIsProfileOfLog1p ==
    (IsSpecific /\ call.feature_key \in DOMAIN adata.varm) =>
        \A profile_key \in ProfileKeys : result = ProfileOnLog1p(profile_key)

\* C8: no call changes the input matrix: X, the indexes and the keyed
\* matrices are the same after every step.
C8_InputUnchanged == [][adata' = adata]_vars

\* a diffusion call that clamped a negative value of a selected gene
C8_Witness ==
    /\ IsDiffusion
    /\ "normalisation" \in locals.done
    /\ \E i \in 1..Len(adata.X) : \E j \in 1..Len(adata.var) :
         adata.var[j] \in Range(call.genes) /\ adata.X[i][j] < 0

\* C9: whenever the diffusion primitive was called, the column sums were
\* taken over the values with negatives counted as zero, and the signal it
\* was given has no negative (and no undefined) entry.
C9_NegativesClamped ==
    ("diffusion" \in locals.done) =>
        /\ locals.branch = "per_column" =>
              locals.cs = [c \in 1..Len(RequestedPresentSeq) |-> Total(RequestedPresentSeq[c])]
        /\ \A i \in 1..Len(locals.U) : \A c \in 1..Len(locals.U[i]) :
              locals.U[i][c].k = "num" /\ locals.U[i][c].n >= 0

\* the primitive was called on a signal with a column whose raw values
\* include a negative one
C9_Witness ==
    /\ "diffusion" \in locals.done
    /\ \E c \in 1..Len(locals.gg) : \E i \in 1..Len(adata.X) :
         adata.X[i][PositionOf(adata.var, locals.gg[c])] < 0

\* C10: when some selected gene has positive total, the signal given to the
\* primitive has one column per selected gene of positive total, in index
\* order, each the gene's clamped raw column over its own sum, summing to 1.
C10_PerColumnNormalised ==
    ("diffusion" \in locals.done /\ PositiveSeq # <<>>) =>
        /\ locals.gg = PositiveSeq
        /\ HasShape(locals.U, Len(adata.obs), Len(PositiveSeq))
        /\ \A c \in 1..Len(PositiveSeq) :
             LET j == PositionOf(adata.var, PositiveSeq[c])
             IN  /\ \A i \in 1..Len(adata.obs) :
                       locals.U[i][c] = FNum(NonNeg(adata.X[i][j]), Total(PositiveSeq[c]))
                 /\ FSum(Col(locals.U, c)) = FNum(1, 1)

\* two genes selected, one with zero total and dropped from the signal
C10_Witness ==
    /\ "diffusion" \in locals.done
    /\ Len(RequestedPresentSeq) = 2
    /\ Len(PositiveSeq) = 1
    /\ NCols(locals.U) = 1

=============================================================================
